---- MODULE Spec2Model ----
(***************************************************************************)
(* Model of scvelo/tools/velocity.py: the Velocity estimator and the       *)
(* velocity() driver, acting on an annotated dataset.                      *)
(*                                                                         *)
(* Numbers are fixed point in units of 1/100 (0.01 is 1, 1.0 is 100).      *)
(* Arrays are sequences, matrices are sequences of rows, boolean masks are *)
(* sequences of BOOLEAN, as the numpy arrays of the source are.            *)
(* A missing layer or annotation column is the empty sequence.             *)
(***************************************************************************)
EXTENDS Integers, Sequences, FiniteSets, TLC

\* ------------------------------------------------------------------ bounds
NCells == 2
NGenes == 2

\* ------------------------------------------------------- python values
Absent == <<>>

NoneVal == [kind |-> "none", val |-> <<>>]
StrVal(s) == [kind |-> "str", val |-> s]
ListVal(l) == [kind |-> "list", val |-> l]
MaskVal(m) == [kind |-> "mask", val |-> m]

\* strings whose characters the code inspects are sequences of characters
S_deterministic == <<"d","e","t","e","r","m","i","n","i","s","t","i","c">>
S_stochastic == <<"s","t","o","c","h","a","s","t","i","c">>
S_bayes == <<"b","a","y","e","s">>
S_alpha == <<"a","l","p","h","a">>
S_stoch == <<"s","t","o","c","h">>

\* python: `sub in s` for two strings
StrIn(sub, s) ==
    \E i \in 0..(Len(s) - Len(sub)) : \A k \in 1..Len(sub) : s[i + k] = sub[k]

\* python: len(set(v)) > 1 for a one-dimensional array v
LenSetGt1(v) == Cardinality({v[i] : i \in DOMAIN v}) > 1

\* numpy: v[idx] for a boolean mask idx
Positions(idx) == {j \in DOMAIN idx : idx[j]}

RECURSIVE TakeMask(_, _)
TakeMask(v, idx) ==
    IF v = <<>> THEN <<>>
    ELSE (IF Head(idx) THEN <<Head(v)>> ELSE <<>>) \o TakeMask(Tail(v), Tail(idx))

\* rank of position j among the true positions of idx
Rank(idx, j) == Cardinality({k \in Positions(idx) : k <= j})

\* numpy: v[idx] = w, in place
PutMask(v, idx, w) == [j \in DOMAIN v |-> IF idx[j] THEN w[Rank(idx, j)] ELSE v[j]]

\* numpy: M[:, idx] and M[rows]
Cols(M, idx) == [r \in DOMAIN M |-> TakeMask(M[r], idx)]
Rows(M, rows) == TakeMask(M, rows)

NCols(M) == IF M = <<>> THEN 0 ELSE Len(M[1])
Shape(M) == <<Len(M), NCols(M)>>

Zeros(n) == [j \in 1..n |-> 0]
Ones(n) == [j \in 1..n |-> 100]
Trues(n) == [j \in 1..n |-> TRUE]
ZerosM(r, c) == [i \in 1..r |-> Zeros(c)]

\* fixed point product
Mul(a, b) == (a * b) \div 100

\* ------------------------------------------------- the annotated dataset
Cells == 1..NCells

vkey == "velocity"
vkey2 == "variance_" \o vkey

\* counts and moments of cell c, gene g: inputs of the program
RawCount(key, c, g) ==
    IF key = "spliced" THEN 100 * (c + g) ELSE 100 * (2 * c + g)
Moment(key, c, g) ==
    IF key = "Ms" THEN 100 * (c + g + 1) ELSE 100 * (2 * c + g + 1)
Moment2(key, c, g) ==
    IF key = "Mss" THEN 100 * (c * c + g + 3) ELSE 100 * (c * g + 2)

PyNone == "None"

\* cell annotation columns: cluster label of every cell
ObsColumn(key) ==
    [c \in Cells |->
        IF key = "louvain" THEN "a"
        ELSE IF key = "clusters" THEN (IF c = 1 THEN "b" ELSE "a")
        ELSE (IF c = 1 THEN "a" ELSE "b")]

ObsOf(keys) == [k \in keys |-> ObsColumn(k)]

Matrix(names, F(_, _)) == [c \in Cells |-> [j \in DOMAIN names |-> F(c, names[j])]]

\* layer values left in the dataset before the call
Prior(c, g) == 100 * (7 + c + g)

\* a dataset as the caller holds it before a call
Dataset(obskeys, withMoments, withPrior) ==
    LET names == [j \in 1..NGenes |-> j]
        raw == [k \in {"spliced", "unspliced"} |->
                   Matrix(names, LAMBDA c, g : RawCount(k, c, g))]
        mom == [k \in {"Ms", "Mu"} |-> Matrix(names, LAMBDA c, g : Moment(k, c, g))]
        old == [k \in {vkey, vkey2} |-> Matrix(names, LAMBDA c, g : Prior(c, g))]
    IN  [var_names |-> names,
         obs |-> ObsOf(obskeys),
         layers |-> (IF withMoments THEN mom ELSE <<>>) @@
                    (IF withPrior THEN old ELSE <<>>) @@ raw,
         var |-> <<>>]

n_obs(ds) == NCells
n_vars(ds) == Len(ds.var_names)

\* preprocessing.moments.moments(adata): writes the layers 'Ms' and 'Mu'
moments(ds) ==
    [ds EXCEPT !.layers =
        [k \in {"Ms", "Mu"} |-> Matrix(ds.var_names, LAMBDA c, g : Moment(k, c, g))]
        @@ ds.layers]

\* AnnData._inplace_subset_var(idx): narrows var_names, every layer and
\* every gene annotation column to the genes of the mask
inplace_subset_var(ds, idx) ==
    [ds EXCEPT !.var_names = TakeMask(ds.var_names, idx),
               !.layers = [k \in DOMAIN ds.layers |-> Cols(ds.layers[k], idx)],
               !.var = [k \in DOMAIN ds.var |-> TakeMask(ds.var[k], idx)]]

\* a view adata[rows] or adata[rows][:, cols] reads the dataset it views at
\* the time of the read; Absent stands for "all"
View(rows, cols) == [rows |-> rows, cols |-> cols]

ViewLayer(ds, view, key) ==
    LET M == ds.layers[key]
        R == IF view.rows = Absent THEN M ELSE Rows(M, view.rows)
    IN  IF view.cols = Absent THEN R ELSE Cols(R, view.cols)

ViewCells(view) ==
    LET all == [c \in Cells |-> c]
    IN  IF view.rows = Absent THEN all ELSE TakeMask(all, view.rows)

ViewGenes(ds, view) ==
    IF view.cols = Absent THEN ds.var_names ELSE TakeMask(ds.var_names, view.cols)

\* preprocessing.moments.second_order_moments(view) -> (Mss, Mus)
second_order_moments(ds, view) ==
    LET cs == ViewCells(view)
        gs == ViewGenes(ds, view)
    IN  [k \in {"Mss", "Mus"} |->
            [i \in DOMAIN cs |-> [j \in DOMAIN gs |-> Moment2(k, cs[i], gs[j])]]]

\* ------------------------------------------------ the solvers (tools.solver)
\* The solvers and R_squared return one number per gene; their arithmetic is
\* outside the driver and the estimator, so each result is any vector of a
\* small family.
Threshold == 1

Ramp(n) == [j \in 1..n |-> 100 * j]

OffsetVecs(n, fit) == IF fit THEN {Ramp(n)} ELSE {Zeros(n)}

\* solve_cov(Ms, Mu, fit_offset) -> (offset, gamma)
solve_cov(n, fit_offset) ==
    {[offset |-> o, gamma |-> g] :
        o \in OffsetVecs(n, fit_offset), g \in [1..n -> {Threshold, 200}]}

\* R_squared(residual, total)
R_squared(n) == {[j \in 1..n |-> 50], [j \in 1..n |-> IF j = 1 THEN 50 ELSE Threshold]}

\* solve2_inv / solve2_mle -> (offset, offset2, gamma)
solve2(n, fit_offset, fit_offset2) ==
    {[offset |-> o, offset2 |-> o2, gamma |-> g] :
        o \in OffsetVecs(n, fit_offset), o2 \in OffsetVecs(n, fit_offset2),
        g \in {[j \in 1..n |-> 150], [j \in 1..n |-> 150 + 100 * j]}}

\* ------------------------------------------------------ class Velocity
\* Mu - gamma * Ms, and "if fit_offset: residual -= offset"
Residual(Ms, Mu, gamma, offset, fit_offset) ==
    [i \in DOMAIN Ms |-> [j \in DOMAIN Ms[i] |->
        Mu[i][j] - Mul(gamma[j], Ms[i][j]) - (IF fit_offset THEN offset[j] ELSE 0)]]

\* the layer Velocity.__init__ takes _Ms (and, with 'unspliced'/'Mu', _Mu) from
MsKey(use_raw) == IF use_raw THEN "spliced" ELSE "Ms"
MuKey(use_raw) == IF use_raw THEN "unspliced" ELSE "Mu"

\* Velocity.__init__(adata, residual=..., use_raw=...)
VelocityInit(ds, view, residual, use_raw) ==
    LET Ms == ViewLayer(ds, view, MsKey(use_raw))
        Mu == ViewLayer(ds, view, MuKey(use_raw))
        n == NCols(Ms)
    IN  [adata |-> view, Ms |-> Ms, Mu |-> Mu,
         residual |-> residual, residual2 |-> Absent,
         offset |-> Zeros(n), offset2 |-> Zeros(n),
         gamma |-> Zeros(n), r2 |-> Zeros(n),
         beta |-> Ones(n), velocity_genes |-> Trues(n)]

\* (self._r2 > .01) & (self._gamma > .01)
VelocityGenes(r2, gamma) == [j \in DOMAIN r2 |-> r2[j] > Threshold /\ gamma[j] > Threshold]

\* Velocity.compute_deterministic, given what solve_cov and R_squared return
compute_deterministic(v, fit_offset, sol, r2) ==
    [v EXCEPT !.offset = sol.offset,
              !.gamma = sol.gamma,
              !.residual = Residual(v.Ms, v.Mu, sol.gamma, sol.offset, fit_offset),
              !.r2 = r2,
              !.velocity_genes = VelocityGenes(r2, sol.gamma)]

\* is_subset = True if len(set(idx)) > 1 else False
IsSubset(idx) == LenSetGt1(idx)

\* numpy refuses v[idx] = w when w has more than one entry and not as many
\* entries as idx has true positions
CanPut(idx, w) == Len(w) = Cardinality(Positions(idx)) \/ Len(w) = 1

\* fault for C7: the entries outside the mask are cleared
PutClearing(v, idx, w) ==
    [j \in DOMAIN v |-> IF idx[j] THEN (IF Len(w) = 1 THEN w[1] ELSE w[Rank(idx, j)]) ELSE 0]

Put(v, idx, w) ==
    [j \in DOMAIN v |-> IF idx[j] THEN (IF Len(w) = 1 THEN w[1] ELSE w[Rank(idx, j)]) ELSE v[j]]

\* the second order residual of the active genes
Residual2(Ms, Mu, Mss, Mus, gamma, offset, offset2, fit_offset, fit_offset2) ==
    [i \in DOMAIN Ms |-> [j \in DOMAIN gamma |->
        LET var_ss == 2 * Mss[i][j] - Ms[i][j]
            cov_us == 2 * Mus[i][j] + Mu[i][j]
        IN  (cov_us - 2 * Mul(Ms[i][j], Mu[i][j]))
            - Mul(gamma[j], var_ss - 2 * Mul(Ms[i][j], Ms[i][j]))
            + (IF fit_offset THEN 2 * Mul(offset[j], Ms[i][j]) ELSE 0)
            - (IF fit_offset2 THEN offset2[j] ELSE 0)]]

\* self._residual2 = np.zeros(self._Ms.shape); self._residual2[:, idx] = _residual2
Scatter(shape, idx, M) ==
    [i \in 1..shape[1] |-> PutMask(Zeros(shape[2]), idx, M[i])]

\* the number of genes the stochastic stage hands to the solvers
ActiveCount(v) ==
    IF IsSubset(v.velocity_genes) THEN Cardinality(Positions(v.velocity_genes))
    ELSE NCols(v.Ms)

\* whether the assignment through idx of lines 57-59 is accepted
StochasticAssigns(v) == CanPut(v.velocity_genes, Zeros(ActiveCount(v)))

\* Velocity.compute_stochastic, given what second_order_moments and the
\* two-parameter solver return
compute_stochastic(v, ds, fit_offset, fit_offset2, sol) ==
    LET idx == v.velocity_genes
        is_subset == IsSubset(idx)
        adata_ == IF is_subset THEN View(v.adata.rows, idx) ELSE v.adata
        Ms_ == IF is_subset THEN Cols(v.Ms, idx) ELSE v.Ms
        Mu_ == IF is_subset THEN Cols(v.Mu, idx) ELSE v.Mu
        m2 == second_order_moments(ds, adata_)
        offset == Put(v.offset, idx, sol.offset)
        offset2 == Put(v.offset2, idx, sol.offset2)
        gamma == Put(v.gamma, idx, sol.gamma)
        res2 == Residual2(Ms_, Mu_, m2["Mss"], m2["Mus"], TakeMask(gamma, idx),
                          TakeMask(offset, idx), TakeMask(offset2, idx),
                          fit_offset, fit_offset2)
    IN  [v EXCEPT !.offset = offset,
                  !.offset2 = offset2,
                  !.gamma = gamma,
                  !.residual = Residual(v.Ms, v.Mu, gamma, offset, fit_offset),
                  !.residual2 = IF is_subset THEN Scatter(Shape(v.Ms), idx, res2)
                                ELSE res2]

\* Velocity.get_pars() with Velocity.get_pars_names()
ParNames == <<"_offset", "_offset2", "_beta", "_gamma", "_r2", "_genes">>
get_pars(v) == <<v.offset, v.offset2, v.beta, v.gamma, v.r2, v.velocity_genes>>

\* ------------------------------------------------------ def velocity(...)
VARIABLES
    heap,      \* the datasets: "data" is the caller's, "copy" is data.copy()
    pc,        \* position of the call in velocity()
    args,      \* the arguments of the call
    adata,     \* the local adata: which dataset the call works on
    groups,    \* the local groups: None, labels, then the boolean cell mask
    groupby,   \* the local groupby
    velo,      \* the local velo: the Estimator
    ret,       \* what the call returned
    err,       \* the exception that ended the call
    entry,     \* the caller's dataset when the call began
    log,       \* what the call has done so far
    earlier    \* the cell masks of the calls that returned before this one

vars == <<heap, pc, args, adata, groups, groupby, velo, ret, err, entry, log, earlier>>

NoObject == [var_names |-> <<>>, obs |-> <<>>, layers |-> <<>>, var |-> <<>>]
NoVelo == [adata |-> View(Absent, Absent), Ms |-> Absent, Mu |-> Absent,
           residual |-> Absent, residual2 |-> Absent,
           offset |-> Absent, offset2 |-> Absent, gamma |-> Absent, r2 |-> Absent,
           beta |-> Absent, velocity_genes |-> Absent]
NoArgs == [copy |-> FALSE, use_raw |-> FALSE, filter_genes |-> FALSE, mode |-> NoneVal,
           fit_offset |-> FALSE, fit_offset2 |-> FALSE]
NoLog == [moments |-> 0, narrowed |-> <<>>, built |-> <<>>, solver |-> "none",
          stochastic_idx |-> Absent, det_genes |-> Absent, det_r2 |-> Absent]

Modes == {NoneVal} \cup
         {StrVal(s) : s \in {S_deterministic, S_stochastic, S_bayes, S_alpha, S_stoch}}
GroupsArgs == {NoneVal, StrVal("a"), ListVal(<<"a", "b">>)}
GroupbyArgs == {PyNone, "custom"}
ObsConfigs == {{}, {"louvain"}, {"custom", "clusters", "louvain"}}
\* the two offset flags are switched together
ArgSets == {a \in [copy : BOOLEAN, use_raw : BOOLEAN, filter_genes : BOOLEAN,
                    mode : Modes, fit_offset : BOOLEAN, fit_offset2 : BOOLEAN] :
               a.fit_offset2 = a.fit_offset}

Init ==
    /\ \E o \in ObsConfigs, mp \in {<<FALSE, FALSE>>, <<TRUE, FALSE>>, <<TRUE, TRUE>>} :
          heap = [data |-> Dataset(o, mp[1], mp[2]), copy |-> NoObject]
    /\ pc = "idle"
    /\ args = NoArgs
    /\ adata = "data"
    /\ groups = NoneVal
    /\ groupby = PyNone
    /\ velo = NoVelo
    /\ ret = "unset"
    /\ err = "none"
    /\ entry = heap["data"]
    /\ log = NoLog
    /\ earlier = <<>>

\* fault for C1: the call works on the caller's dataset whatever copy says
TargetAliased(copy) == "data"

\* adata = data.copy() if copy else data
Target(copy) == IF copy THEN "copy" ELSE "data"

\* if not use_raw and 'Ms' not in adata.layers.keys(): moments(adata)
NeedsMoments(ds, use_raw) == ~use_raw /\ "Ms" \notin DOMAIN ds.layers

\* lines 121-122: bind adata, make sure the first order moments exist
Enter(a, g, gb) ==
    /\ LET h == IF a.copy THEN [heap EXCEPT !["copy"] = heap["data"]] ELSE heap
           t == Target(a.copy)
           m == NeedsMoments(h[t], a.use_raw)
       IN  /\ heap' = IF m THEN [h EXCEPT ![t] = moments(h[t])] ELSE h
           /\ adata' = t
           /\ log' = [NoLog EXCEPT !.moments = IF m THEN 1 ELSE 0]
    /\ args' = a
    /\ groups' = g
    /\ groupby' = gb
    /\ entry' = heap["data"]
    /\ pc' = "groups"
    /\ velo' = NoVelo
    /\ ret' = "unset"
    /\ err' = "none"

\* a call of velocity(data, ...)
Call(a, g, gb) ==
    /\ pc = "idle"
    /\ Enter(a, g, gb)
    /\ UNCHANGED earlier

\* fault for C3: 'louvain' is tried before 'clusters'
ResolveGroupbyLouvainFirst(ds, gb) ==
    IF gb \in DOMAIN ds.obs THEN gb
    ELSE IF "louvain" \in DOMAIN ds.obs THEN "louvain"
    ELSE IF "clusters" \in DOMAIN ds.obs THEN "clusters"
    ELSE PyNone

\* groupby if groupby in adata.obs.keys() else 'clusters' if ... else 'louvain' if ... else None
ResolveGroupby(ds, gb) ==
    IF gb \in DOMAIN ds.obs THEN gb
    ELSE IF "clusters" \in DOMAIN ds.obs THEN "clusters"
    ELSE IF "louvain" \in DOMAIN ds.obs THEN "louvain"
    ELSE PyNone

\* np.array([key in groups for key in adata.obs[groupby]])
GroupMask(ds, gb, labels) ==
    [c \in Cells |-> \E k \in DOMAIN labels : labels[k] = ds.obs[gb][c]]

\* lines 124-130: turn the groups argument into a boolean cell mask
ResolveGroups ==
    /\ pc = "groups"
    /\ LET g == IF groups.kind = "str" THEN ListVal(<<groups.val>>) ELSE groups
           gb == ResolveGroupby(heap[adata], groupby)
       IN  IF g.kind = "list"
           THEN IF gb # PyNone
                THEN /\ groups' = MaskVal(GroupMask(heap[adata], gb, g.val))
                     /\ groupby' = gb
                     /\ pc' = "estimate"
                     /\ err' = err
                ELSE /\ groups' = g
                     /\ groupby' = gb
                     /\ pc' = "failed"
                     /\ err' = "ValueError"
           ELSE /\ groups' = g
                /\ groupby' = groupby
                /\ pc' = "estimate"
                /\ err' = err
    /\ UNCHANGED <<heap, args, adata, velo, ret, entry, log, earlier>>

\* _adata = adata if groups is None else adata[groups]
AdataView == View(IF groups.kind = "none" THEN Absent ELSE groups.val, Absent)

\* lines 132-137: construct the Estimator, run the deterministic fit
Estimate ==
    /\ pc = "estimate"
    /\ LET v0 == VelocityInit(heap[adata], AdataView, Absent, args.use_raw)
           n == NCols(v0.Ms)
       IN  \E sol \in solve_cov(n, args.fit_offset), r2 \in R_squared(n) :
              LET v == compute_deterministic(v0, args.fit_offset, sol, r2)
              IN  /\ velo' = v
                  /\ log' = [log EXCEPT !.built = Append(@, MsKey(args.use_raw)),
                                        !.det_genes = v.velocity_genes,
                                        !.det_r2 = v.r2]
    /\ pc' = "fitted"
    /\ UNCHANGED <<heap, args, adata, groups, groupby, ret, err, entry, earlier>>

\* fault for C2: the mode is compared with the three names instead of searched in them
IsStochasticExact(mode) ==
    mode.kind # "none" /\ mode.val \in {S_stochastic, S_bayes, S_alpha}

\* any([mode is not None and mode in item for item in ['stochastic', 'bayes', 'alpha']])
IsStochastic(mode) ==
    \E item \in {S_stochastic, S_bayes, S_alpha} :
        mode.kind # "none" /\ StrIn(mode.val, item)

\* fault for C5: the mask is not tested for holding both values
FiltersAlways(filter_genes, v) == filter_genes

\* if filter_genes and len(set(velo._velocity_genes)) > 1
Filters(filter_genes, v) == filter_genes /\ LenSetGt1(v.velocity_genes)

\* the use_raw the Estimator of line 145 is constructed with
RebuildUseRaw(use_raw) == FALSE

\* lines 142-145: narrow the dataset to the velocity genes, rebuild the Estimator
Narrow ==
    /\ pc = "fitted"
    /\ IsStochastic(args.mode)
    /\ Filters(args.filter_genes, velo)
    /\ LET idx == velo.velocity_genes
           ds == inplace_subset_var(heap[adata], idx)
           raw == RebuildUseRaw(args.use_raw)
       IN  /\ heap' = [heap EXCEPT ![adata] = ds]
           /\ IF MsKey(raw) \in DOMAIN ds.layers
              THEN /\ velo' = VelocityInit(ds, AdataView, Cols(velo.residual, idx), raw)
                   /\ log' = [log EXCEPT !.narrowed = Append(@, "before_stochastic"),
                                         !.built = Append(@, MsKey(raw))]
                   /\ pc' = "narrowed"
                   /\ err' = err
              ELSE /\ velo' = velo
                   /\ log' = [log EXCEPT !.narrowed = Append(@, "before_stochastic")]
                   /\ pc' = "failed"
                   /\ err' = "KeyError"
    /\ UNCHANGED <<args, adata, groups, groupby, ret, entry, earlier>>

\* solve2_mle(...) if mode == 'bayes' else solve2_inv(...)
Solver(mode) == IF mode = StrVal(S_bayes) THEN "solve2_mle" ELSE "solve2_inv"

\* line 146: velo.compute_stochastic(fit_offset, fit_offset2, mode)
Stochastic ==
    /\ \/ pc = "narrowed"
       \/ pc = "fitted" /\ IsStochastic(args.mode) /\ ~Filters(args.filter_genes, velo)
    /\ log' = [log EXCEPT !.solver = Solver(args.mode),
                          !.stochastic_idx = velo.velocity_genes]
    /\ IF StochasticAssigns(velo)
       THEN /\ \E sol \in solve2(ActiveCount(velo), args.fit_offset, args.fit_offset2) :
                  velo' = compute_stochastic(velo, heap[adata], args.fit_offset,
                                             args.fit_offset2, sol)
            /\ pc' = "stochastic_done"
            /\ err' = err
       ELSE /\ velo' = velo
            /\ pc' = "failed"
            /\ err' = "ValueError"
    /\ UNCHANGED <<heap, args, adata, groups, groupby, ret, entry, earlier>>

\* numpy: M[rows] = R, in place
CanPutRows(M, rows, R) ==
    /\ Len(R) = Cardinality(Positions(rows))
    /\ \A i \in DOMAIN R : Len(R[i]) = NCols(M)

\* adata.layers[key] = M, or with groups: allocate zeros when the key is
\* missing, then adata.layers[key][groups] = M
CanWriteLayer(ds, g, key, M) ==
    IF g.kind = "none" THEN Shape(M) = <<n_obs(ds), n_vars(ds)>>
    ELSE CanPutRows(ZerosM(n_obs(ds), n_vars(ds)), g.val, M)

\* fault for C4: the layer is allocated anew although the dataset has it
WriteLayerFresh(ds, g, key, M) ==
    IF g.kind = "none" THEN [ds EXCEPT !.layers = (key :> M) @@ @]
    ELSE [ds EXCEPT !.layers =
             (key :> PutMask(ZerosM(n_obs(ds), n_vars(ds)), g.val, M)) @@ @]

WriteLayer(ds, g, key, M) ==
    IF g.kind = "none" THEN [ds EXCEPT !.layers = (key :> M) @@ @]
    ELSE LET base == IF key \in DOMAIN ds.layers THEN ds.layers[key]
                     ELSE ZerosM(n_obs(ds), n_vars(ds))
         IN  [ds EXCEPT !.layers = (key :> PutMask(base, g.val, M)) @@ @]

\* lines 160-162: if len(set(pars[i])) > 1: adata.var[vkey + key] = pars[i]
WritePars(ds, v) ==
    LET pars == get_pars(v)
        sel == {i \in DOMAIN ParNames : LenSetGt1(pars[i])}
        new == [k \in {vkey \o ParNames[i] : i \in sel} |->
                   pars[CHOOSE i \in sel : vkey \o ParNames[i] = k]]
    IN  [ds EXCEPT !.var = new @@ @]

\* lines 169-170: the narrowing at the end of the call
FinalNarrow(ds, filter_genes, v) ==
    IF Filters(filter_genes, v) THEN inplace_subset_var(ds, v.velocity_genes) ELSE ds

\* return adata if copy else None
Return(copy, a) == IF copy THEN a ELSE PyNone

\* lines 147-172: write the residual layers and the parameters, narrow, return
Store ==
    /\ \/ pc = "stochastic_done"
       \/ pc = "fitted" /\ ~IsStochastic(args.mode)
    /\ LET st == IsStochastic(args.mode)
           ds0 == heap[adata]
           ok1 == CanWriteLayer(ds0, groups, vkey, velo.residual)
           ds1 == WriteLayer(ds0, groups, vkey, velo.residual)
           ok2 == ~st \/ CanWriteLayer(ds1, groups, vkey2, velo.residual2)
           ds2 == IF st THEN WriteLayer(ds1, groups, vkey2, velo.residual2) ELSE ds1
           ds3 == WritePars(ds2, velo)
           ds4 == FinalNarrow(ds3, args.filter_genes, velo)
       IN  IF ok1 /\ ok2
           THEN /\ heap' = [heap EXCEPT ![adata] = ds4]
                /\ log' = IF Filters(args.filter_genes, velo)
                          THEN [log EXCEPT !.narrowed = Append(@, "at_end")]
                          ELSE log
                /\ ret' = Return(args.copy, adata)
                /\ pc' = "done"
                /\ err' = err
           ELSE /\ heap' = [heap EXCEPT ![adata] = IF ok1 THEN ds1 ELSE ds0]
                /\ log' = log
                /\ ret' = ret
                /\ pc' = "failed"
                /\ err' = "ValueError"
    /\ UNCHANGED <<args, adata, groups, groupby, velo, entry, earlier>>

Next ==
    \/ \E a \in ArgSets, g \in GroupsArgs, gb \in GroupbyArgs : Call(a, g, gb)
    \/ ResolveGroups
    \/ Estimate
    \/ Narrow
    \/ Stochastic
    \/ Store

Spec == Init /\ [][Next]_vars

\* ------------------------------------------- calls one after another
\* velocity(data, groups=..., groupby=...) called again on the dataset the
\* call before left, each call with another group of cells
SeqArgSets == {a \in ArgSets : /\ ~a.copy /\ ~a.use_raw /\ ~a.fit_offset
                               /\ a.mode \in {NoneVal, StrVal(S_stochastic)}}
SeqGroupsArgs == {StrVal("a")}

SelectedCells(ds, g, gb) ==
    LET col == ResolveGroupby(ds, gb)
        labels == IF g.kind = "str" THEN <<g.val>> ELSE g.val
    IN  IF col = PyNone THEN Absent ELSE GroupMask(ds, col, labels)

CallSeq(a, g, gb) ==
    /\ pc \in {"idle", "done"}
    /\ pc = "done" =>
        LET m == SelectedCells(heap["data"], g, gb)
        IN  m # groups.val /\ \A k \in DOMAIN earlier : m # earlier[k]
    /\ earlier' = IF pc = "done" THEN Append(earlier, groups.val) ELSE earlier
    /\ Enter(a, g, gb)

NextSeq ==
    \/ \E a \in SeqArgSets, g \in SeqGroupsArgs, gb \in GroupbyArgs : CallSeq(a, g, gb)
    \/ ResolveGroups
    \/ Estimate
    \/ Narrow
    \/ Stochastic
    \/ Store

SpecSeq == Init /\ [][NextSeq]_vars

\* ---------------------------------------------------------------- claims
\* the dataset the call works on, and what the caller sees of the call
Work == heap[adata]
InCall == pc # "idle"
Done == pc = "done"
Failed == pc = "failed"
GroupRows(M) == IF groups.kind = "mask" THEN Rows(M, groups.val) ELSE M
NarrowedAtEnd == \E k \in DOMAIN log.narrowed : log.narrowed[k] = "at_end"
WasNarrowed == log.narrowed # <<>>
\* a matrix of the dataset at entry, as the narrowing of this call left it
KeptCols(M) == IF WasNarrowed THEN Cols(M, log.det_genes) ELSE M
\* the residuals of the Estimator, as the dataset holds them after the call
Stored(M) == IF NarrowedAtEnd THEN Cols(M, velo.velocity_genes) ELSE M
RanStochastic == log.solver # "none"

\* C1: with copy=True the caller's dataset is as it was at entry at every
\* point of the call, the call works on and returns the copy, and the
\* moments, the narrowing and the residual layer are found on the copy; with
\* copy=False the call works on the caller's dataset, writes them there and
\* returns None.
C1_CopyIsolation ==
    InCall =>
        /\ args.copy => heap["data"] = entry /\ adata = "copy"
        /\ ~args.copy => adata = "data"
        /\ Done =>
            LET t == heap[IF args.copy THEN "copy" ELSE "data"]
            IN  /\ ret = (IF args.copy THEN "copy" ELSE PyNone)
                /\ vkey \in DOMAIN t.layers
                /\ GroupRows(t.layers[vkey]) = Stored(velo.residual)
                /\ log.moments = 1 => "Ms" \in DOMAIN t.layers
                /\ WasNarrowed => t.var_names = TakeMask(entry.var_names, log.det_genes)

C1_Witness ==
    /\ Done /\ args.copy /\ ret = "copy"
    /\ log.moments = 1 /\ WasNarrowed
    /\ heap["copy"] # heap["data"] /\ heap["data"] = entry

\* the layer `key` of the working dataset holds the matrix M in the rows of the call
Written(key, M) ==
    /\ key \in DOMAIN Work.layers
    /\ M # Absent
    /\ GroupRows(Work.layers[key]) = Stored(M)
\* the layer `key` of the working dataset is what it was at entry
Untouched(key) ==
    /\ key \in DOMAIN Work.layers <=> key \in DOMAIN entry.layers
    /\ key \in DOMAIN Work.layers => Work.layers[key] = KeptCols(entry.layers[key])

\* C2 as claimed: the stochastic stage runs and 'variance_'+vkey is written
\* exactly when mode is 'stochastic' or 'bayes'; for every other mode only
\* the deterministic fit runs and only vkey is written; solve2_mle is used
\* exactly when mode == 'bayes'.
C2_OnlyStochasticOrBayes ==
    LET st == args.mode \in {StrVal(S_stochastic), StrVal(S_bayes)}
    IN  /\ RanStochastic => st
        /\ Done =>
            /\ RanStochastic <=> st
            /\ Written(vkey, velo.residual)
            /\ IF st THEN Written(vkey2, velo.residual2) ELSE Untouched(vkey2)
            /\ (log.solver = "solve2_mle") <=> (args.mode = StrVal(S_bayes))

\* python's `mode in item`: mode occurs in item as a run of consecutive characters
OccursIn(m, item) ==
    \E i \in 1..(Len(item) + 1), j \in 0..Len(item) : m = SubSeq(item, i, j)

\* C2 as the code has it: the stochastic stage runs and 'variance_'+vkey is
\* written exactly when mode is a string that occurs in 'stochastic', 'bayes'
\* or 'alpha' (the three names themselves, and any piece of one, such as
\* 'stoch'); for None, 'deterministic' and every other string only the
\* deterministic fit runs and only vkey is written; within the stochastic
\* stage solve2_mle is used exactly when mode == 'bayes', solve2_inv otherwise.
C2_StochasticModes ==
    LET st == /\ args.mode.kind = "str"
              /\ \/ OccursIn(args.mode.val, S_stochastic)
                 \/ OccursIn(args.mode.val, S_bayes)
                 \/ OccursIn(args.mode.val, S_alpha)
    IN  /\ RanStochastic => st
        /\ Done =>
            /\ RanStochastic <=> st
            /\ Written(vkey, velo.residual)
            /\ IF st THEN Written(vkey2, velo.residual2)
               ELSE Untouched(vkey2) /\ velo.residual2 = Absent
            /\ log.solver = (IF ~st THEN "none"
                             ELSE IF args.mode = StrVal(S_bayes) THEN "solve2_mle"
                             ELSE "solve2_inv")

C2_Witness ==
    /\ Done /\ args.mode = StrVal(S_stoch)
    /\ log.solver = "solve2_inv"
    /\ vkey2 \notin DOMAIN entry.layers /\ vkey2 \in DOMAIN Work.layers

\* C3: a label or a list of labels is resolved against the column groupby if
\* the dataset has it, else 'clusters', else 'louvain', and becomes the mask
\* of the cells whose label is listed; with none of the columns the call
\* ends with ValueError, no Estimator was constructed, and the velocity
\* layers and the gene annotations are as at entry.
C3_GroupResolution ==
    /\ [][(pc = "groups" /\ groups.kind \in {"str", "list"}) =>
            LET labels == IF groups.kind = "str" THEN {groups.val}
                          ELSE {groups.val[k] : k \in DOMAIN groups.val}
                has(col) == col \in DOMAIN Work.obs
            IN  IF has(groupby) \/ has("clusters") \/ has("louvain")
                THEN LET col == IF has(groupby) THEN groupby
                                ELSE IF has("clusters") THEN "clusters" ELSE "louvain"
                     IN  /\ pc' = "estimate"
                         /\ groups' = MaskVal([c \in Cells |-> Work.obs[col][c] \in labels])
                ELSE /\ pc' = "failed"
                     /\ err' = "ValueError"
                     /\ heap' = heap]_vars
    /\ [](Failed /\ groups.kind = "list" =>
            /\ velo = NoVelo /\ log.built = <<>>
            /\ Untouched(vkey) /\ Untouched(vkey2)
            /\ Work.var = entry.var)

C3_Witness ==
    /\ Failed /\ err = "ValueError" /\ groups.kind = "list"
    /\ DOMAIN Work.obs = {}
    /\ velo = NoVelo

\* C5: the dataset is narrowed at most once in a call; it is narrowed exactly
\* when filter_genes is set and the velocity-gene mask of the deterministic
\* fit holds both values, and then its genes are exactly the genes of the
\* mask; the narrowing comes before the stochastic fit when that fit runs
\* and at the end of the call otherwise.
C5_NarrowedOnce ==
    InCall =>
        /\ Len(log.narrowed) <= 1
        /\ pc = "narrowed" => log.narrowed = <<"before_stochastic">> /\ ~RanStochastic
        /\ WasNarrowed =>
            /\ args.filter_genes
            /\ \E j \in DOMAIN log.det_genes : log.det_genes[j]
            /\ \E j \in DOMAIN log.det_genes : ~log.det_genes[j]
            /\ Work.var_names = TakeMask(entry.var_names, log.det_genes)
        /\ ~WasNarrowed => Work.var_names = entry.var_names
        /\ Done =>
            /\ WasNarrowed <=> (args.filter_genes /\ LenSetGt1(log.det_genes))
            /\ WasNarrowed =>
                log.narrowed = (IF RanStochastic THEN <<"before_stochastic">>
                                ELSE <<"at_end">>)

C5_Witness ==
    /\ Done /\ args.filter_genes /\ RanStochastic
    /\ log.narrowed = <<"before_stochastic">>
    /\ Len(Work.var_names) < Len(entry.var_names)

\* C7: when compute_stochastic runs on a mask that holds both values, the
\* second order residual has the shape of Ms, and for every gene outside
\* the mask its column is zero and offset, offset2, gamma and r2 keep the
\* values of the deterministic stage; gamma is overwritten in the mask.
C7_ScatterGather ==
    [][(pc' = "stochastic_done"
        /\ (\E j \in DOMAIN velo.velocity_genes : velo.velocity_genes[j])
        /\ (\E j \in DOMAIN velo.velocity_genes : ~velo.velocity_genes[j])) =>
        /\ Shape(velo'.residual2) = Shape(velo.Ms)
        /\ velo'.r2 = velo.r2
        /\ velo'.velocity_genes = velo.velocity_genes
        /\ \A j \in DOMAIN velo.velocity_genes :
            IF velo.velocity_genes[j]
            THEN velo'.gamma[j] # velo.gamma[j]
            ELSE /\ velo'.offset[j] = velo.offset[j]
                 /\ velo'.offset2[j] = velo.offset2[j]
                 /\ velo'.gamma[j] = velo.gamma[j]
                 /\ \A i \in DOMAIN velo'.residual2 : velo'.residual2[i][j] = 0]_vars

C7_Witness ==
    /\ pc = "stochastic_done"
    /\ \E j \in DOMAIN velo.velocity_genes : velo.velocity_genes[j]
    /\ \E j \in DOMAIN velo.velocity_genes :
        /\ ~velo.velocity_genes[j]
        /\ velo.gamma[j] # 0
        /\ \A i \in DOMAIN velo.residual2 : velo.residual2[i][j] = 0
    /\ \E i \in DOMAIN velo.residual2, j \in DOMAIN velo.velocity_genes :
        velo.residual2[i][j] # 0

\* C6 as claimed: a parameter column is in the gene annotations after the
\* call exactly when that vector of the fit holds more than one value,
\* vkey+'_beta' never is, and the r2 and the velocity-gene mask of the
\* deterministic fit are there whenever they hold more than one value.
C6_ParsWritten ==
    Done =>
        /\ \A i \in DOMAIN ParNames :
            (vkey \o ParNames[i]) \in DOMAIN Work.var <=> LenSetGt1(get_pars(velo)[i])
        /\ (vkey \o "_beta") \notin DOMAIN Work.var
        /\ LenSetGt1(log.det_r2) => (vkey \o "_r2") \in DOMAIN Work.var
        /\ LenSetGt1(log.det_genes) => (vkey \o "_genes") \in DOMAIN Work.var

\* C8 as claimed: compute_stochastic is never entered with a mask that is
\* false for every gene.
C8_NoEmptyMask ==
    RanStochastic => \E j \in DOMAIN log.stochastic_idx : log.stochastic_idx[j]

\* C9 as claimed: until every fitting stage of the call has completed, the
\* gene set, the velocity layers and the gene annotations of the dataset are
\* as at entry; so they are after a call that failed.
C9_WritesAfterFitting ==
    (InCall /\ ~Done) =>
        /\ Work.var_names = entry.var_names
        /\ Work.var = entry.var
        /\ \A key \in {vkey, vkey2} :
            /\ key \in DOMAIN Work.layers <=> key \in DOMAIN entry.layers
            /\ key \in DOMAIN Work.layers => Work.layers[key] = entry.layers[key]

\* C10 as claimed: the moments are computed at most once, exactly when
\* use_raw is false and 'Ms' is missing at entry; with use_raw every
\* Estimator of the call is constructed, and from 'spliced'/'unspliced'.
C10_MomentsOnceRawOnly ==
    InCall =>
        /\ log.moments <= 1
        /\ log.moments = 1 <=> (~args.use_raw /\ "Ms" \notin DOMAIN entry.layers)
        /\ args.use_raw =>
            /\ \A k \in DOMAIN log.built : log.built[k] = "spliced"
            /\ err # "KeyError"

\* C4: after a call with a group of cells, every row of vkey (and of
\* 'variance_'+vkey when the stochastic stage ran) that belongs to a cell
\* outside the group holds what the layer held at entry (on the genes the
\* dataset still has), and zeros if the dataset had no such layer at entry;
\* so from call to call.
C4_GroupRowsOnly ==
    (Done /\ groups.kind = "mask") =>
        \A key \in {vkey} \cup (IF RanStochastic THEN {vkey2} ELSE {}) :
            /\ key \in DOMAIN Work.layers
            /\ Shape(Work.layers[key]) = <<n_obs(Work), n_vars(Work)>>
            /\ \A c \in Cells :
                ~groups.val[c] =>
                    Work.layers[key][c] =
                        (IF key \in DOMAIN entry.layers
                         THEN KeptCols(entry.layers[key])[c]
                         ELSE Zeros(n_vars(Work)))

C4_Witness ==
    /\ Done /\ groups.kind = "mask" /\ earlier # <<>>
    /\ vkey \in DOMAIN entry.layers
    /\ \E c \in Cells :
        /\ ~groups.val[c]
        /\ earlier[1][c]
        /\ Work.layers[vkey][c] # Zeros(n_vars(Work))
        /\ \A j \in DOMAIN Work.var_names : Work.layers[vkey][c][j] # Prior(c, Work.var_names[j])
    /\ \E c \in Cells : groups.val[c] /\ Work.layers[vkey][c] # KeptCols(entry.layers[vkey])[c]

====
